---- MODULE Spec2Model ----
(***************************************************************************)
(* State-machine model of faiss::IndexFlatUpdateCodes / IndexFlatUpdate    *)
(* (src/faiss/IndexFlatUpdate.h, src/faiss/IndexFlatUpdate.cpp): the code  *)
(* buffer, the tombstone bitmap, the free list and the label <-> slot      *)
(* maps, driven by add, mark_deleted and reset, and read by search and the *)
(* reconstruct calls.  range_search and compute_distance_subset are those  *)
(* of the other revision of the file (src/unnamed/part_000).  The distance *)
(* kernels these calls hand the buffer to are modelled by their contract.  *)
(*                                                                         *)
(* Slots are 0-based as in the code; a std::vector v is a sequence whose   *)
(* element v[i] of the code is v[i + 1] here.  The code buffer is kept in  *)
(* units of one float (memcpy never splits a float), so code_size is d.    *)
(*                                                                         *)
(* An out-of-bounds vector access is undefined behaviour.  The model lets  *)
(* it produce: a crash (lastResult = "crash", no further step), or a read  *)
(* of an arbitrary value / a write that lands outside the modelled fields  *)
(* (and is lost to them), after which the call goes on to its end.  oob    *)
(* records that the last call made such an access.  What the program does  *)
(* in later calls, on a heap that an undefined access may have damaged, is *)
(* not modelled: no call follows a state with oob set.                     *)
(***************************************************************************)
EXTENDS Integers, Sequences, FiniteSets, TLC

\* ---- bounds of the model ------------------------------------------------
MaxN == 4          \* most vectors in one add call
MaxSlots == 4      \* add is called only while ntotal + n <= MaxSlots
MaxLabel == 4      \* add is called only while labelcount + n <= MaxLabel
MaxSel == 2        \* most labels in one mark_deleted call
MaxRemove == 2     \* mark_deleted is called only while nremove + sel.n <= MaxRemove

\* dimension d of the index
d == 2

\* sizeof(float) * d, in units of one float
code_size == d

\* The vectors a caller adds.  add only copies them (memcpy), so two vectors
\* tell any two slots apart; <<0, 0>> is what resize fills the buffer with.
InputVecs == {<<1, 0>>, <<5, 5>>}
\* the four points [0,0], [1,0], [0,1], [5,5], as one input array of add
Fixture == <<0, 0, 1, 0, 0, 1, 5, 5>>
\* the metrics of an index: the two primary ones, an extra metric that is a
\* similarity (is_similarity_metric) and an extra metric that is a distance
Metrics == {"METRIC_INNER_PRODUCT", "METRIC_L2", "METRIC_Jaccard", "METRIC_L1"}
\* what a read outside a vector may return
GarbageLabels == (-1)..MaxLabel

VARIABLES
    is_trained,        \* Index::is_trained
    ntotal,            \* Index::ntotal, the physical slot count
    nremove,           \* pending removals
    labelcount,        \* next label to mint
    label_lookup_,     \* label -> slot (unordered_map: a function on its keys)
    is_deleted,        \* tombstone bitmap
    label,             \* slot -> label
    deleted_elements,  \* free list (std::set: iterated ascending)
    codes,             \* code buffer
    lastOp,            \* the call that produced this state
    lastArgs,          \* its argument (the vectors of add, the ids of mark_deleted)
    lastResult,        \* "ok", "error" (exception thrown) or "crash"
    oob,               \* the last call accessed a vector out of bounds
    metric_type,       \* Index::metric_type
    result,            \* what the last query call returned (<<>> otherwise)
    stored,            \* history: label -> [slot, vec] of the vector it was minted for,
                       \*   kept while the slot the bytes went to has not been rewritten
    noDelete           \* history: no mark_deleted and no reset has been called

vars == <<is_trained, ntotal, nremove, labelcount, label_lookup_, is_deleted, label,
          deleted_elements, codes, lastOp, lastArgs, lastResult, oob, metric_type, result,
          stored, noDelete>>

\* ---- helpers ------------------------------------------------------------
EmptyFun == [k \in {} |-> 0]

Min(S) == CHOOSE m \in S : \A o \in S : m <= o

\* std::vector::resize(len, fill): truncates or pads with fill
Resize(s, len, fill) == [i \in 1..len |-> IF i <= Len(s) THEN s[i] ELSE fill]

\* unordered_map::operator[] used as an lvalue: m[k] = v
Put(m, k, v) == [j \in (DOMAIN m) \cup {k} |-> IF j = k THEN v ELSE m[j]]

\* unordered_map::operator[] used as an rvalue inserts k -> 0 when k is absent
Touch(m, k) == IF k \in DOMAIN m THEN m ELSE Put(m, k, 0)

\* memcpy(bytes + boff, x + xoff, sizeof(float) * d * n) for n > 0; the part of
\* the destination outside the buffer is outside the model
sa_encode(n, x, xoff, bytes, boff) ==
    IF n > 0
    THEN [i \in 1..Len(bytes) |->
            IF i > boff /\ i <= boff + d * n THEN x[xoff + (i - boff)] ELSE bytes[i]]
    ELSE bytes

\* memcpy(x, bytes + boff, sizeof(float) * d * n) for n > 0
sa_decode(n, bytes, boff) ==
    IF n > 0 THEN [i \in 1..(d * n) |-> bytes[boff + i]] ELSE <<>>

\* slot id is inside a vector of len elements
InBounds(id, len) == id >= 0 /\ id < len

\* the vector of an input array x at position pos (d floats)
VecAt(x, pos) == [i \in 1..d |-> x[pos * d + i]]

\* the input array holding the vectors vs one after the other
Flat(vs) == [i \in 1..(Len(vs) * d) |-> vs[((i - 1) \div d) + 1][((i - 1) % d) + 1]]

\* the input arrays of n vectors a caller passes to add
Inputs(n) ==
    {Flat(vs) : vs \in [1..n -> InputVecs]}
      \cup (IF n * d = Len(Fixture) THEN {Fixture} ELSE {})

\* the calls that are const member functions: they change no field
QueryOps == {"search", "range_search", "compute_distance_subset",
             "reconstruct", "IndexFlatUpdateCodes::reconstruct", "reconstruct_n"}

\* The process is alive and its heap is as the fields say.  A behaviour ends with
\* the first query call: a const call leaves the fields as they were, so the
\* calls that could follow it are those that could have been made instead of it.
Running == lastResult # "crash" /\ ~oob /\ lastOp \notin QueryOps

\* the fields after construction, but for the metric
InitFields ==
    /\ is_trained \in BOOLEAN
    /\ ntotal = 0
    /\ nremove = 0
    /\ labelcount = 0
    /\ label_lookup_ = EmptyFun
    /\ is_deleted = <<>>
    /\ label = <<>>
    /\ deleted_elements = {}
    /\ codes = <<>>
    /\ lastOp = "init"
    /\ lastArgs = <<>>
    /\ lastResult = "ok"
    /\ oob = FALSE
    /\ result = <<>>
    /\ stored = EmptyFun
    /\ noDelete = TRUE

\* an index constructed with the default metric
Init == InitFields /\ metric_type = "METRIC_L2"

\* an index constructed with any metric
InitAnyMetric == InitFields /\ metric_type \in Metrics

\* (mutant of DeleteCheckFails: the check is left out)
DeleteCheckFailsNever(bit) == FALSE

\* FAISS_THROW_IF_NOT(is_deleted[id] == false) fails on a set bit
DeleteCheckFails(bit) == bit = TRUE

\* The loop of mark_deleted from position i of ids on.  r is the state so far:
\* [lookup, del, free, res, oob].  The result is the set of states the loop can
\* end in (one, unless it reads the bitmap out of bounds).
RECURSIVE MarkLoop(_, _, _)
MarkLoop(r, ids, i) ==
    IF i > Len(ids)
    THEN {r}
    ELSE LET lk == Touch(r.lookup, ids[i])
             id == lk[ids[i]]
             inb == InBounds(id, Len(r.del))
             bits == IF inb THEN {r.del[id + 1]} ELSE BOOLEAN
         IN UNION {
              IF DeleteCheckFails(b)
              THEN {[r EXCEPT !.lookup = lk, !.res = "error", !.oob = r.oob \/ ~inb]}
              ELSE MarkLoop([lookup |-> lk,
                             del |-> IF inb THEN [r.del EXCEPT ![id + 1] = TRUE] ELSE r.del,
                             free |-> r.free \cup {id},
                             res |-> r.res,
                             oob |-> r.oob \/ ~inb],
                            ids, i + 1)
              : b \in bits }

\* labels a caller passes to mark_deleted: the issued ones (live or retired) and
\* one that has not been issued
LabelArgs == 0..labelcount

SelArgs == UNION {[1..n -> LabelArgs] : n \in 1..MaxSel}

\* IndexFlatUpdateCodes::mark_deleted
mark_deleted ==
    /\ Running
    /\ \E ids \in SelArgs :
         /\ nremove + Len(ids) <= MaxRemove
         /\ \E out \in MarkLoop([lookup |-> label_lookup_, del |-> is_deleted,
                              free |-> deleted_elements, res |-> "ok", oob |-> FALSE],
                             ids, 1) :
            /\ lastOp' = "mark_deleted"
            /\ lastArgs' = ids
            /\ noDelete' = FALSE
            /\ oob' = out.oob
            /\ \/ /\ nremove' = nremove + Len(ids)
                  /\ label_lookup_' = out.lookup
                  /\ is_deleted' = out.del
                  /\ deleted_elements' = out.free
                  /\ lastResult' = out.res
               \/ /\ out.oob
                  /\ lastResult' = "crash"
                  /\ UNCHANGED <<nremove, label_lookup_, is_deleted, deleted_elements>>
    /\ UNCHANGED <<is_trained, ntotal, labelcount, label, codes, stored, metric_type, result>>

\* (mutant of NextLabel: the increment is left out)
NextLabelStuck(lc) == lc

\* labelcount++
NextLabel(lc) == lc + 1

\* history: forget the vectors whose bytes lived in the slots of S
Forget(st, S) == [L \in {K \in DOMAIN st : st[K].slot \notin S} |-> st[L]]

\* (mutant of Retire: the old label keeps its entry)
RetireNot(lookup, old) == lookup

\* label_lookup_[label[id_replaced]] = -1
Retire(lookup, old) == Put(lookup, old, -1)

\* The recycling loop of add (the while loop with its break).  r is the state
\* so far: [codes, del, lab, lookup, free, nremove, pos, labelcount, stored, oob].
\* The result is the set of states the loop can end in.
RECURSIVE RecycleLoop(_, _, _)
RecycleLoop(r, n, x) ==
    IF r.free = {}
    THEN {r}
    ELSE LET id_replaced == Min(r.free)
             inb == InBounds(id_replaced, Len(r.lab))
             olds == IF inb THEN {r.lab[id_replaced + 1]} ELSE GarbageLabels
         IN UNION {
              LET r2 == [codes |-> sa_encode(1, x, r.pos * d, r.codes, id_replaced * code_size),
                         del |-> IF inb THEN [r.del EXCEPT ![id_replaced + 1] = FALSE] ELSE r.del,
                         lab |-> IF inb THEN [r.lab EXCEPT ![id_replaced + 1] = r.labelcount]
                                 ELSE r.lab,
                         lookup |-> Put(Retire(r.lookup, old), r.labelcount, id_replaced),
                         free |-> r.free \ {id_replaced},
                         nremove |-> r.nremove - 1,
                         pos |-> r.pos + 1,
                         labelcount |-> NextLabel(r.labelcount),
                         stored |-> IF inb
                                    THEN Put(Forget(r.stored, {id_replaced}), r.labelcount,
                                             [slot |-> id_replaced, vec |-> VecAt(x, r.pos)])
                                    ELSE r.stored,
                         oob |-> r.oob \/ ~inb]
              IN IF r2.pos = n \/ r2.nremove = 0 THEN {r2} ELSE RecycleLoop(r2, n, x)
              : old \in olds }

\* The labelling loop of the append paths, cnt iterations left:
\*     label[ntotal] = labelcount; label_lookup_[labelcount] = ntotal;
\*     ntotal++; labelcount++;
\* r is [lab, lookup, ntotal, labelcount, oob].
RECURSIVE AppendLabels(_, _)
AppendLabels(r, cnt) ==
    IF cnt <= 0
    THEN r
    ELSE LET inb == InBounds(r.ntotal, Len(r.lab))
         IN AppendLabels([lab |-> IF inb THEN [r.lab EXCEPT ![r.ntotal + 1] = r.labelcount]
                                  ELSE r.lab,
                          lookup |-> Put(r.lookup, r.labelcount, r.ntotal),
                          ntotal |-> r.ntotal + 1,
                          labelcount |-> NextLabel(r.labelcount),
                          oob |-> r.oob \/ ~inb],
                         cnt - 1)

\* history: the cnt vectors of x from position pos on went to the slots from
\* slot0 on and were minted the labels from lc0 on, in input order
Remember(st, x, pos, slot0, lc0, cnt) ==
    LET kept == Forget(st, slot0..(slot0 + cnt - 1))
    IN [L \in (DOMAIN kept) \cup (lc0..(lc0 + cnt - 1)) |->
          IF L >= lc0 /\ L < lc0 + cnt
          THEN [slot |-> slot0 + (L - lc0), vec |-> VecAt(x, pos + (L - lc0))]
          ELSE kept[L]]

\* ntotal the append after recycling starts its labelling loop with
\* (ntotal += (n - pos) comes before the loop, which increments it again)
AppendStart(nt, cnt) == nt + cnt

\* (mutant of AppendStartNoRemove: ntotal += n before the loop, as in the
\* append after recycling)
AppendStartNoRemoveBumped(nt, cnt) == nt + cnt

\* ntotal the nremove == 0 branch starts its labelling loop with (unchanged)
AppendStartNoRemove(nt, cnt) == nt

\* The body of add for a trained index and n > 0: the set of final states
\* [codes, del, lab, lookup, free, nremove, ntotal, labelcount, stored, oob, res].
AddOutcomes(n, x) ==
    LET codes1 == Resize(codes, (ntotal + n) * code_size, 0)
        del1 == Resize(is_deleted, ntotal + n, FALSE)
        lab1 == Resize(label, ntotal + n, -1)
    IN IF nremove > 0
       THEN UNION {
              IF Cardinality(r.free) # r.nremove
              THEN {[codes |-> r.codes, del |-> r.del, lab |-> r.lab, lookup |-> r.lookup,
                     free |-> r.free, nremove |-> r.nremove, ntotal |-> ntotal,
                     labelcount |-> r.labelcount, stored |-> r.stored, oob |-> r.oob,
                     res |-> "error"]}
              ELSE IF r.pos < n
              THEN LET cnt == n - r.pos
                       a == AppendLabels([lab |-> r.lab, lookup |-> r.lookup,
                                          ntotal |-> AppendStart(ntotal, cnt),
                                          labelcount |-> r.labelcount, oob |-> r.oob], cnt)
                   IN {[codes |-> sa_encode(cnt, x, r.pos * d, r.codes, ntotal * code_size),
                        del |-> r.del, lab |-> a.lab, lookup |-> a.lookup,
                        free |-> r.free, nremove |-> r.nremove, ntotal |-> a.ntotal,
                        labelcount |-> a.labelcount,
                        stored |-> Remember(r.stored, x, r.pos, ntotal, r.labelcount, cnt),
                        oob |-> a.oob, res |-> "ok"]}
              ELSE {[codes |-> r.codes, del |-> r.del, lab |-> r.lab, lookup |-> r.lookup,
                     free |-> r.free, nremove |-> r.nremove, ntotal |-> ntotal,
                     labelcount |-> r.labelcount, stored |-> r.stored, oob |-> r.oob,
                     res |-> "ok"]}
              : r \in RecycleLoop([codes |-> codes1, del |-> del1, lab |-> lab1,
                                   lookup |-> label_lookup_, free |-> deleted_elements,
                                   nremove |-> nremove, pos |-> 0, labelcount |-> labelcount,
                                   stored |-> stored, oob |-> FALSE], n, x) }
       ELSE LET a == AppendLabels([lab |-> lab1, lookup |-> label_lookup_,
                                   ntotal |-> AppendStartNoRemove(ntotal, n),
                                   labelcount |-> labelcount, oob |-> FALSE], n)
            IN {[codes |-> sa_encode(n, x, 0, codes1, ntotal * code_size),
                 del |-> del1, lab |-> a.lab, lookup |-> a.lookup,
                 free |-> deleted_elements, nremove |-> nremove, ntotal |-> a.ntotal,
                 labelcount |-> a.labelcount,
                 stored |-> Remember(stored, x, 0, ntotal, labelcount, n),
                 oob |-> a.oob, res |-> "ok"]}

\* IndexFlatUpdateCodes::add
add ==
    /\ Running
    /\ \E n \in 0..MaxN :
         /\ ntotal + n <= MaxSlots
         /\ labelcount + n <= MaxLabel
         /\ \E x \in Inputs(n) :
              /\ lastOp' = "add"
              /\ lastArgs' = x
              /\ \/ /\ ~is_trained
                    /\ lastResult' = "error"
                    /\ oob' = FALSE
                    /\ UNCHANGED <<ntotal, nremove, labelcount, label_lookup_, is_deleted,
                                   label, deleted_elements, codes, stored>>
                 \/ /\ is_trained
                    /\ n = 0
                    /\ lastResult' = "ok"
                    /\ oob' = FALSE
                    /\ UNCHANGED <<ntotal, nremove, labelcount, label_lookup_, is_deleted,
                                   label, deleted_elements, codes, stored>>
                 \/ /\ is_trained
                    /\ n > 0
                    /\ \E out \in AddOutcomes(n, x) :
                         /\ oob' = out.oob
                         /\ \/ /\ codes' = out.codes
                               /\ is_deleted' = out.del
                               /\ label' = out.lab
                               /\ label_lookup_' = out.lookup
                               /\ deleted_elements' = out.free
                               /\ nremove' = out.nremove
                               /\ ntotal' = out.ntotal
                               /\ labelcount' = out.labelcount
                               /\ stored' = out.stored
                               /\ lastResult' = out.res
                            \/ /\ out.oob
                               /\ lastResult' = "crash"
                               /\ UNCHANGED <<ntotal, nremove, labelcount, label_lookup_,
                                              is_deleted, label, deleted_elements, codes,
                                              stored>>
    /\ UNCHANGED <<is_trained, noDelete, metric_type, result>>

\* IndexFlatUpdateCodes::reset
reset ==
    /\ Running
    /\ codes' = <<>>
    /\ is_deleted' = <<>>
    /\ ntotal' = 0
    /\ nremove' = 0
    /\ lastOp' = "reset"
    /\ lastArgs' = <<>>
    /\ lastResult' = "ok"
    /\ oob' = FALSE
    /\ stored' = EmptyFun
    /\ noDelete' = FALSE
    /\ UNCHANGED <<is_trained, labelcount, label_lookup_, label, deleted_elements,
                   metric_type, result>>

\* ---- the distance kernels (faiss/utils/distances, extra_distances) --------
\* They are called by search, range_search and compute_distance_subset and are
\* modelled by their contract: a full scan of the ny vectors at xb.
\* f[1] + ... + f[n]
RECURSIVE SumSeq(_, _)
SumSeq(f, n) == IF n <= 0 THEN 0 ELSE f[n] + SumSeq(f, n - 1)

fvec_L2sqr(a, b) == SumSeq([i \in 1..d |-> (a[i] - b[i]) * (a[i] - b[i])], d)
fvec_inner_product(a, b) == SumSeq([i \in 1..d |-> a[i] * b[i]], d)
fvec_L1(a, b) == SumSeq([i \in 1..d |-> IF a[i] >= b[i] THEN a[i] - b[i] ELSE b[i] - a[i]], d)
\* Jaccard is sum(min) / sum(max): kept as the pair <<numerator, denominator>>
fvec_Jaccard(a, b) ==
    <<SumSeq([i \in 1..d |-> IF a[i] <= b[i] THEN a[i] ELSE b[i]], d),
      SumSeq([i \in 1..d |-> IF a[i] >= b[i] THEN a[i] ELSE b[i]], d)>>

\* the score of vector b for query a, as a fraction <<numerator, denominator>>
Score(metric, a, b) ==
    CASE metric = "METRIC_L2" -> <<fvec_L2sqr(a, b), 1>>
      [] metric = "METRIC_INNER_PRODUCT" -> <<fvec_inner_product(a, b), 1>>
      [] metric = "METRIC_L1" -> <<fvec_L1(a, b), 1>>
      [] metric = "METRIC_Jaccard" ->
            IF fvec_Jaccard(a, b)[2] = 0 THEN <<0, 1>> ELSE fvec_Jaccard(a, b)

\* is_similarity_metric: larger scores are better
is_similarity_metric(metric) == metric \in {"METRIC_INNER_PRODUCT", "METRIC_Jaccard"}

\* score s1 is at least as good as score s2
NotWorse(metric, s1, s2) ==
    IF is_similarity_metric(metric)
    THEN s1[1] * s2[2] >= s2[1] * s1[2]
    ELSE s1[1] * s2[2] <= s2[1] * s1[2]

\* an IDSelector: off (nullptr) or the set of the ids it admits
NoSel == [on |-> FALSE, ids |-> {}]
IsMember(sel, id) == ~sel.on \/ id \in sel.ids

\* get_xb() + s * d: the vector of slot s
XbAt(s) == VecAt(codes, s)

\* the candidates a scan of ny vectors considers under selector sel
Candidates(ny, sel) == {s \in 0..(ny - 1) : IsMember(sel, s)}

\* The heaps are keyed by (score, slot): candidate c comes before candidate o
\* when its score is better, or equal with the key (score, slot) of c the one a
\* max-heap (distances: smaller slot) or a min-heap (similarities: larger slot)
\* keeps.  sc[s + 1] is the score of slot s.
Before(metric, sc, c, o) ==
    IF NotWorse(metric, sc[c + 1], sc[o + 1]) /\ NotWorse(metric, sc[o + 1], sc[c + 1])
    THEN IF is_similarity_metric(metric) THEN c >= o ELSE c <= o
    ELSE NotWorse(metric, sc[c + 1], sc[o + 1])

\* the candidate of cands that comes before all others
Best(metric, sc, cands) == CHOOSE c \in cands : \A o \in cands : Before(metric, sc, c, o)

\* the k best candidates of cands, best first; positions no candidate fills
\* hold the id -1
RECURSIVE Heap(_, _, _, _)
Heap(metric, sc, cands, k) ==
    IF k <= 0
    THEN <<>>
    ELSE IF cands = {}
    THEN [i \in 1..k |-> -1]
    ELSE LET c == Best(metric, sc, cands)
         IN <<c>> \o Heap(metric, sc, cands \ {c}, k - 1)

\* the scores of the ny vectors at xb for query q, slot after slot
Scores(metric, q, ny) == <<>> \o [i \in 1..ny |-> Score(metric, q, XbAt(i - 1))]

\* the heap a knn kernel leaves for one query q: a scan of the ny vectors at
\* xb, of which cands are those its selector admits
KBest(metric, q, ny, cands, k) == Heap(metric, Scores(metric, q, ny), cands, k)

\* ---- IndexFlatUpdate::search ----------------------------------------------
\* the query of the model (one query vector a call), the selectors and what a
\* read of label[] outside the vector may return (no label, or a label)
QueryVecs == {<<0, 0>>}
Sels == {NoSel, [on |-> TRUE, ids |-> {0}]}
GarbageRead == {-1, 0}

\* the k of a search call: not positive, small, all slots, more than all slots
KArgs == {0, 2, ntotal, ntotal + 1}

\* the selector the kernel of the metric is given: knn_inner_product and
\* knn_L2sqr take sel, knn_extra_metrics has no selector argument
KernelSel(metric, sel) ==
    IF metric \in {"METRIC_INNER_PRODUCT", "METRIC_L2"} THEN sel ELSE NoSel

\* (mutant of SearchScan: tombstoned slots are filtered out of the scan)
SearchScanLive(sel) ==
    {s \in Candidates(ntotal, KernelSel(metric_type, sel)) :
        ~(s < Len(is_deleted) /\ is_deleted[s + 1])}

\* the slots search hands to the kernel: get_xb(), ntotal, sel
SearchScan(sel) == Candidates(ntotal, KernelSel(metric_type, sel))

\* for (i < res.k * res.nh) res.ids[i] = label[res.ids[i]]; g is what a read
\* outside label[] returns
Remap(ids, g) ==
    [i \in 1..Len(ids) |-> IF InBounds(ids[i], Len(label)) THEN label[ids[i] + 1] ELSE g]

\* the remapping loop reads label[] out of bounds
RemapReadsOutside(ids) == \E i \in 1..Len(ids) : ~InBounds(ids[i], Len(label))

\* The body of search past its checks: the set of [ids, labels, oob, res] it can
\* end with; ids is the heap the kernel left, labels what the loop made of it.
SearchOutcomes(q, k, sel) ==
    LET cands == SearchScan(sel)
        scanOob == ntotal * d > Len(codes)
        heaps == IF scanOob
                 THEN [1..k -> cands \cup {-1}]
                 ELSE {KBest(metric_type, q, ntotal, cands, k)}
    IN UNION {
         IF RemapReadsOutside(r) \/ scanOob
         THEN {[ids |-> r, labels |-> Remap(r, g), oob |-> TRUE, res |-> "ok"]
                 : g \in GarbageRead}
              \cup {[ids |-> <<>>, labels |-> <<>>, oob |-> TRUE, res |-> "crash"]}
         ELSE {[ids |-> r, labels |-> Remap(r, 0), oob |-> FALSE, res |-> "ok"]}
         : r \in heaps }

search ==
    /\ Running
    /\ \E q \in QueryVecs, k \in KArgs, sel \in Sels :
         /\ lastOp' = "search"
         /\ lastArgs' = [x |-> q, k |-> k, sel |-> sel]
         /\ IF ~(k > 0)
            THEN /\ lastResult' = "error"
                 /\ result' = <<>>
                 /\ oob' = FALSE
            ELSE IF ~is_similarity_metric(metric_type) /\ metric_type # "METRIC_L2" /\ sel.on
            THEN /\ lastResult' = "error"
                 /\ result' = <<>>
                 /\ oob' = FALSE
            ELSE \E out \in SearchOutcomes(q, k, sel) :
                   /\ lastResult' = out.res
                   /\ result' = [ids |-> out.ids, labels |-> out.labels]
                   /\ oob' = out.oob
    /\ UNCHANGED <<is_trained, ntotal, nremove, labelcount, label_lookup_, is_deleted,
                   label, deleted_elements, codes, metric_type, stored, noDelete>>

Next == add \/ mark_deleted \/ reset \/ search

Spec == Init /\ [][Next]_vars

\* ---- IndexFlatUpdate::reconstruct and IndexFlatUpdateCodes::reconstruct_n ----
\* memcpy(recons, &codes[key * code_size], code_size): no bounds check
reconstruct(key) == [i \in 1..code_size |-> codes[key * code_size + i]]

\* FAISS_THROW_IF_NOT(ni == 0 || (i0 >= 0 && i0 + ni <= ntotal)), then sa_decode
reconstruct_n(i0, ni) ==
    IF ni = 0 \/ (i0 >= 0 /\ i0 + ni <= ntotal)
    THEN [res |-> "ok", recons |-> sa_decode(ni, codes, i0 * code_size)]
    ELSE [res |-> "error", recons |-> <<>>]

\* the slot arguments of the reconstruct calls: below, inside and just past
\* [0, ntotal); and the counts of reconstruct_n
KeyArgs == (-1)..ntotal
NiArgs == 0..2
\* what a read outside the code buffer may return
GarbageVecs == {<<0, 0>>, <<5, 5>>}

\* a read of len floats from offset off of the code buffer leaves the buffer
ReadsOutsideCodes(off, len) == len > 0 /\ (off < 0 \/ off + len > Len(codes))

\* the fields no query call changes, and what it records
QueryFrame(op, args) ==
    /\ lastOp' = op
    /\ lastArgs' = args
    /\ UNCHANGED <<is_trained, ntotal, nremove, labelcount, label_lookup_, is_deleted,
                   label, deleted_elements, codes, metric_type, stored, noDelete>>

\* a call that throws
Throws == lastResult' = "error" /\ result' = <<>> /\ oob' = FALSE
\* a call that returns r
Returns(r) == lastResult' = "ok" /\ result' = r /\ oob' = FALSE
\* a call that read out of bounds: it crashes, or returns one of rs
ReadOutside(rs) ==
    /\ oob' = TRUE
    /\ \/ lastResult' = "ok" /\ result' \in rs
       \/ lastResult' = "crash" /\ result' = <<>>

\* IndexFlatUpdate::reconstruct(key, recons)
IndexFlatUpdate_reconstruct ==
    /\ Running
    /\ \E key \in KeyArgs :
         /\ QueryFrame("reconstruct", [i0 |-> key, ni |-> 1])
         /\ IF ReadsOutsideCodes(key * code_size, code_size)
            THEN ReadOutside(GarbageVecs)
            ELSE Returns(reconstruct(key))

\* the body of IndexFlatUpdateCodes::reconstruct_n(i0, ni, recons)
ReconstructN(i0, ni) ==
    IF ~(ni = 0 \/ (i0 >= 0 /\ i0 + ni <= ntotal))
    THEN Throws
    ELSE IF ReadsOutsideCodes(i0 * code_size, ni * code_size)
    THEN ReadOutside({Flat([i \in 1..ni |-> g]) : g \in GarbageVecs})
    ELSE Returns(reconstruct_n(i0, ni).recons)

\* IndexFlatUpdateCodes::reconstruct(key, recons): reconstruct_n(key, 1, recons)
IndexFlatUpdateCodes_reconstruct ==
    /\ Running
    /\ \E key \in KeyArgs :
         /\ QueryFrame("IndexFlatUpdateCodes::reconstruct", [i0 |-> key, ni |-> 1])
         /\ ReconstructN(key, 1)

\* IndexFlatUpdateCodes::reconstruct_n(i0, ni, recons)
IndexFlatUpdateCodes_reconstruct_n ==
    /\ Running
    /\ \E i0 \in KeyArgs, ni \in NiArgs :
         /\ QueryFrame("reconstruct_n", [i0 |-> i0, ni |-> ni])
         /\ ReconstructN(i0, ni)

\* ---- range_search and compute_distance_subset (src/unnamed/part_000) ------
\* twice the radius of a range_search call (1.5 and 50.5)
Radius2Args == {3, 101}
\* the candidate lists of a compute_distance_subset call (k = 1)
SubsetArgs == {<<s>> : s \in 0..ntotal}

\* The result of a range kernel for one query: the vectors among the ny at xb
\* that sel admits and that lie within the radius (squared L2 below it, inner
\* product above it); radius2 is twice the radius.
RangeHits(metric, q, ny, sel, radius2) ==
    {s \in Candidates(ny, sel) :
        IF metric = "METRIC_INNER_PRODUCT"
        THEN 2 * fvec_inner_product(q, XbAt(s)) > radius2
        ELSE 2 * fvec_L2sqr(q, XbAt(s)) < radius2}

\* the result of a by_idx kernel for one query: the score of every listed slot
ScoresByIdx(metric, q, ids) ==
    [j \in 1..Len(ids) |-> Score(metric, q, XbAt(ids[j]))[1]]

\* (mutant of MetricSupported: the default case of the switch is left out)
MetricSupportedAny(metric) == TRUE

\* the cases of the switch (metric_type) of range_search and compute_distance_subset
MetricSupported(metric) == metric \in {"METRIC_INNER_PRODUCT", "METRIC_L2"}

\* (mutant of RangeCount: the last slot is left out of the scan)
RangeCountShort == ntotal - 1

\* the number of vectors range_search hands to the kernel
RangeCount == ntotal

\* IndexFlatUpdate::range_search
range_search ==
    /\ Running
    /\ \E q \in QueryVecs, radius2 \in Radius2Args, sel \in Sels :
         /\ QueryFrame("range_search", [x |-> q, radius2 |-> radius2, sel |-> sel])
         /\ IF ~MetricSupported(metric_type)
            THEN Throws
            ELSE IF ReadsOutsideCodes(0, RangeCount * d)
            THEN ReadOutside({[ids |-> S] : S \in SUBSET Candidates(RangeCount, sel)})
            ELSE Returns([ids |-> RangeHits(metric_type, q, RangeCount, sel, radius2)])

\* IndexFlatUpdate::compute_distance_subset
compute_distance_subset ==
    /\ Running
    /\ \E q \in QueryVecs, ids \in SubsetArgs :
         /\ QueryFrame("compute_distance_subset", [x |-> q, k |-> Len(ids), labels |-> ids])
         /\ IF ~MetricSupported(metric_type)
            THEN Throws
            ELSE IF \E j \in 1..Len(ids) : ReadsOutsideCodes(ids[j] * d, d)
            THEN ReadOutside({[distances |-> [j \in 1..Len(ids) |-> g]] : g \in {0, 1}})
            ELSE Returns([distances |-> ScoresByIdx(metric_type, q, ids)])

\* the calls that fill an index and the queries besides search, on an index of
\* the default metric
NextQuery ==
    \/ add
    \/ mark_deleted
    \/ range_search
    \/ compute_distance_subset
    \/ IndexFlatUpdate_reconstruct
    \/ IndexFlatUpdateCodes_reconstruct
    \/ IndexFlatUpdateCodes_reconstruct_n

SpecQuery == Init /\ [][NextQuery]_vars

\* the calls that branch on the metric, on an index of any metric
NextMetric == add \/ search \/ range_search \/ compute_distance_subset

SpecMetric == InitAnyMetric /\ [][NextMetric]_vars

\* ---- vocabulary of the properties ---------------------------------------
Slots == 0..(ntotal - 1)
Tombstoned(s) == InBounds(s, Len(is_deleted)) /\ is_deleted[s + 1]
Live(s) == s \in Slots /\ ~Tombstoned(s)
\* the reverse map has label L and sends it to slot s
Resolves(L, s) == L \in DOMAIN label_lookup_ /\ label_lookup_[L] = s
\* number of vectors in the argument of an add call
NumVecs(x) == Len(x) \div d
MinOf(a, b) == IF a <= b THEN a ELSE b
\* the call that led to the next state
IsAdd == lastOp' = "add"
IsMarkDeleted == lastOp' = "mark_deleted"
IsReset == lastOp' = "reset"

\* ---- properties ---------------------------------------------------------

\* C1 (bijection invariant): in every reachable state, every live slot s of
\* [0, ntotal) satisfies label_lookup_[label[s]] = s.  Stated on the states
\* reached without an out-of-bounds access.
C1_Bijection ==
    ~oob => \A s \in Slots :
               Live(s) => InBounds(s, Len(label)) /\ Resolves(label[s + 1], s)

\* C2: in every reachable state the free list has as many slot ids as the
\* pending-removal counter says.  Stated on the states reached without an
\* out-of-bounds access.
C2_FreeListSize == ~oob => Cardinality(deleted_elements) = nremove

\* C3: an add of n >= 1 vectors on a trained index, started with f slots in the
\* free list, lowers nremove by min(n, f) and raises ntotal by n - min(n, f).
\* Stated for calls that start with the free list and the counter in agreement
\* and make no out-of-bounds access.
C3_AddCounts ==
    [][(/\ IsAdd
        /\ is_trained
        /\ NumVecs(lastArgs') >= 1
        /\ Cardinality(deleted_elements) = nremove
        /\ ~oob')
       => LET n == NumVecs(lastArgs')
              f == Cardinality(deleted_elements)
          IN /\ nremove' = nremove - MinOf(n, f)
             /\ ntotal' = ntotal + (n - MinOf(n, f))]_vars

\* the labels of a mark_deleted argument are pairwise distinct
Distinct(ids) == \A i, j \in 1..Len(ids) : i # j => ids[i] # ids[j]
\* the slots the labels of ids resolve to
SlotsOf(ids) == {label_lookup_[ids[i]] : i \in 1..Len(ids)}
\* how many slots of S are smaller than s
RankIn(S, s) == Cardinality({t \in S : t < s})
\* the state follows a successful mark_deleted of m distinct labels, each bound
\* to a slot of [0, ntotal), that started with no pending removals
AfterDeleteOfLive ==
    /\ lastOp = "mark_deleted"
    /\ lastResult = "ok"
    /\ ~oob
    /\ Distinct(lastArgs)
    /\ nremove = Len(lastArgs)
    /\ \A i \in 1..Len(lastArgs) :
          /\ lastArgs[i] \in DOMAIN label_lookup_
          /\ label_lookup_[lastArgs[i]] \in Slots
          /\ InBounds(label_lookup_[lastArgs[i]], Len(label))
          /\ label[label_lookup_[lastArgs[i]] + 1] = lastArgs[i]

\* C4 (recycling correctness): from a state with no pending removals, after
\* mark_deleted of m distinct live labels and then add of m vectors, the j-th
\* vector is in the j-th smallest freed slot under a fresh label, ntotal is
\* unchanged and nremove is 0 again.
C4_Recycling ==
    [][(/\ AfterDeleteOfLive
        /\ IsAdd
        /\ is_trained
        /\ NumVecs(lastArgs') = Len(lastArgs)
        /\ ~oob')
       => /\ ntotal' = ntotal
          /\ nremove' = 0
          /\ \A s \in SlotsOf(lastArgs) :
                LET j == RankIn(SlotsOf(lastArgs), s)
                IN /\ s * code_size + code_size <= Len(codes')
                   /\ sa_decode(1, codes', s * code_size) = VecAt(lastArgs', j)
                   /\ label'[s + 1] = labelcount + j
                   /\ label'[s + 1] \notin 0..(labelcount - 1)]_vars

\* C5 (round trip): for every vector add inserted whose slot has not been
\* rewritten since, the label minted for it resolves through the reverse map
\* to a slot of [0, ntotal) whose reconstruction is the input vector.  Stated
\* on the states reached without an out-of-bounds access.
C5_RoundTrip ==
    ~oob => \A L \in DOMAIN stored :
               /\ L \in DOMAIN label_lookup_
               /\ label_lookup_[L] \in Slots
               /\ label_lookup_[L] * code_size + code_size <= Len(codes)
               /\ reconstruct(label_lookup_[L]) = stored[L].vec
               /\ reconstruct_n(label_lookup_[L], 1).recons = stored[L].vec

\* C6: reset leaves the empty initial state: code buffer, bitmap and free list
\* empty, ntotal and nremove 0, and the next label to mint is 0.
C6_ResetEmpties ==
    lastOp = "reset"
    => /\ codes = <<>>
       /\ is_deleted = <<>>
       /\ deleted_elements = {}
       /\ ntotal = 0
       /\ nremove = 0
       /\ labelcount = 0

\* the slot mark_deleted resolves label L to (an absent key reads as 0)
Resolve(L) == Touch(label_lookup_, L)[L]
\* position i of ids names a slot that is tombstoned when the loop gets to it:
\* tombstoned before the call, or named by an earlier position of the same call
HitsTombstone(ids, i) ==
    \/ Tombstoned(Resolve(ids[i]))
    \/ /\ InBounds(Resolve(ids[i]), Len(is_deleted))
       /\ \E j \in 1..(i - 1) : Resolve(ids[j]) = Resolve(ids[i])

\* C7 (double-delete rejection): a mark_deleted call with a label whose slot is
\* tombstoned and not yet recycled (the same label twice in one call included)
\* fails; the slot stays tombstoned and is in the free list as often as before.
C7_DoubleDelete ==
    [][(IsMarkDeleted /\ \E i \in 1..Len(lastArgs') : HitsTombstone(lastArgs', i))
       => /\ lastResult' # "ok"
          /\ \A s \in Slots : Tombstoned(s) => is_deleted'[s + 1]]_vars

\* a double delete was rejected: the same live label twice in one call
C7_Witness ==
    /\ lastOp = "mark_deleted"
    /\ lastResult = "error"
    /\ ~oob
    /\ Len(lastArgs) = 2
    /\ lastArgs[1] = lastArgs[2]
    /\ Resolves(lastArgs[1], 0)
    /\ Tombstoned(0)
    /\ label[1] = lastArgs[1]

\* the labels the forward map gains in a step: the non-negative ones at slots
\* that did not hold them before
NewLabels ==
    {label'[i] : i \in {k \in 1..Len(label') :
                          /\ label'[k] >= 0
                          /\ (k > Len(label) \/ label[k] # label'[k])}}

\* C8 (labels are never reused): labelcount never decreases; a successful add of
\* n vectors raises it by exactly n, recycling or appending, and an add that
\* throws after recycling raises it by the number of slots it recycled; every
\* label a step binds in the forward map is one of those minted in that step,
\* so greater than every label minted before; and no two slots hold the same
\* label.
C8_LabelsFresh ==
    [][/\ labelcount' >= labelcount
       /\ (IsAdd /\ is_trained /\ lastResult' = "ok")
             => labelcount' = labelcount + NumVecs(lastArgs')
       /\ (IsAdd /\ is_trained /\ lastResult' = "error")
             => labelcount' = labelcount + (nremove - nremove')
       /\ \A L \in NewLabels : L >= labelcount /\ L < labelcount'
       /\ \A i, j \in 1..Len(label') :
             (i # j /\ label'[i] >= 0 /\ i <= ntotal' /\ j <= ntotal')
                => label'[i] # label'[j]]_vars

\* an add has recycled a slot and then appended
C8_Witness ==
    /\ lastOp = "add"
    /\ lastResult = "ok"
    /\ ~oob
    /\ NumVecs(lastArgs) = 2
    /\ \E s \in Slots : InBounds(s, Len(label)) /\ label[s + 1] = labelcount - 2 /\ s < ntotal - 2

\* C9 (label stability under no deletion): while no mark_deleted and no reset
\* has been called, slot i holds label i for every i of [0, ntotal), and the
\* labels issued are exactly 0 .. ntotal - 1.
C9_LabelStability ==
    noDelete => /\ labelcount = ntotal
                /\ Len(label) = ntotal
                /\ \A i \in Slots : label[i + 1] = i /\ Resolves(i, i)

\* two or more add calls without a deletion have filled MaxSlots slots
C9_Witness ==
    /\ noDelete
    /\ lastOp = "add"
    /\ lastResult = "ok"
    /\ ntotal = MaxSlots
    /\ NumVecs(lastArgs) >= 1
    /\ NumVecs(lastArgs) < ntotal

\* C10 (mark_deleted leaves the label maps alone): a successful mark_deleted
\* changes neither the forward map, nor the reverse map, nor the code bytes; and
\* a label bound to a tombstoned slot keeps resolving to it in every step that
\* is not an add recycling that slot.  Stated for calls without an
\* out-of-bounds access.
C10_MapsUntouched ==
    [][/\ (IsMarkDeleted /\ lastResult' = "ok" /\ ~oob')
          => /\ label' = label
             /\ label_lookup_' = label_lookup_
             /\ codes' = codes
       /\ \A s \in Slots :
             (/\ Tombstoned(s)
              /\ InBounds(s, Len(label))
              /\ Resolves(label[s + 1], s)
              /\ ~oob'
              /\ ~(IsAdd /\ s \in deleted_elements /\ s \notin deleted_elements'))
             => label_lookup_'[label[s + 1]] = s]_vars

\* ---- queries --------------------------------------------------------------
\* the elements of a sequence
Range(seq) == {seq[i] : i \in 1..Len(seq)}
\* the last call was a search that returned
SearchReturned == lastOp = "search" /\ lastResult = "ok"

\* C11 (tombstone visibility): search scans every slot of [0, ntotal) whatever
\* its tombstone bit: a search with k = ntotal and no selector returns every
\* tombstoned slot of [0, ntotal), as the label the forward map has for it, and
\* reads nothing out of bounds.
C11_TombstoneVisible ==
    (SearchReturned /\ lastArgs.k = ntotal /\ ~lastArgs.sel.on)
      => /\ ~oob
         /\ \A s \in Slots :
              Tombstoned(s) => /\ s \in Range(result.ids)
                               /\ label[s + 1] \in Range(result.labels)

\* a search with k = ntotal has returned while a slot whose label resolves to
\* it is tombstoned and another slot is live
C11_Witness ==
    /\ SearchReturned
    /\ lastArgs.k = ntotal
    /\ ~lastArgs.sel.on
    /\ \E s \in Slots : /\ Tombstoned(s)
                        /\ s \in deleted_elements
                        /\ Resolves(label[s + 1], s)
                        /\ label[s + 1] \in Range(result.labels)
    /\ \E s \in Slots : Live(s)

\* ---- sizes ------------------------------------------------------------------
\* the size of the code buffer in slots
CodeSlots(bytes) == Len(bytes) \div code_size

\* C12 (monotonic resource growth): no add and no mark_deleted call lowers the
\* size of the code buffer (in slots) or the size of the tombstone bitmap.
\* Stated for calls without an out-of-bounds access.
C12_SizesNeverShrink ==
    [][((IsAdd \/ IsMarkDeleted) /\ ~oob')
       => /\ CodeSlots(codes') >= CodeSlots(codes)
          /\ Len(is_deleted') >= Len(is_deleted)]_vars

\* C13 (a failing add is state-preserving): an add call that throws (index not
\* trained, or the free-list consistency check) leaves the reverse map, the
\* forward map and the tombstone bits of the slots of [0, ntotal), the free
\* list, nremove, ntotal and labelcount as they were.  Stated for calls without
\* an out-of-bounds access.
C13_FailedAddKeepsState ==
    [][(IsAdd /\ lastResult' = "error" /\ ~oob')
       => /\ label_lookup_' = label_lookup_
          /\ \A s \in Slots :
                /\ InBounds(s, Len(label)) => label'[s + 1] = label[s + 1]
                /\ InBounds(s, Len(is_deleted)) => is_deleted'[s + 1] = is_deleted[s + 1]
          /\ deleted_elements' = deleted_elements
          /\ nremove' = nremove
          /\ ntotal' = ntotal
          /\ labelcount' = labelcount]_vars

\* the last call was one of the reconstruct calls
IsReconstruct ==
    lastOp \in {"reconstruct", "IndexFlatUpdateCodes::reconstruct", "reconstruct_n"}
\* the slots a reconstruct call with arguments args asks for
Requested(args) == args.i0..(args.i0 + args.ni - 1)

\* C14 (reconstruct bounds): a reconstruct call (IndexFlatUpdate::reconstruct,
\* IndexFlatUpdateCodes::reconstruct, reconstruct_n) whose requested slots do
\* not all lie in [0, ntotal) throws and reads no storage; one whose slots all
\* lie in [0, ntotal) returns their bytes, tombstoned or not.
C14_ReconstructBounds ==
    IsReconstruct
      => IF Requested(lastArgs) \subseteq Slots
         THEN /\ lastResult = "ok"
              /\ ~oob
              /\ result = sa_decode(lastArgs.ni, codes, lastArgs.i0 * code_size)
         ELSE /\ lastResult = "error"
              /\ ~oob

\* the squared L2 distance from query q to the vector label L was minted for
DistOf(q, L) == fvec_L2sqr(q, stored[L].vec)

\* C15 (k-NN correctness under L2): with no tombstoned slot, no selector and
\* 1 <= k <= ntotal, search returns k distinct labels of stored vectors, in
\* increasing order of the squared L2 distance of their vectors to the query,
\* and no stored vector left out is nearer than the last one returned.  (With
\* the vectors [0,0], [1,0], [0,1], [5,5], query [0,0] and k = 2 these are the
\* label of [0,0] and then that of [1,0] or [0,1].)  Stated for calls without
\* an out-of-bounds access.
C15_KnnL2 ==
    (/\ SearchReturned
     /\ ~oob
     /\ metric_type = "METRIC_L2"
     /\ ~lastArgs.sel.on
     /\ lastArgs.k >= 1
     /\ lastArgs.k <= ntotal
     /\ \A s \in Slots : ~Tombstoned(s))
      => LET q == lastArgs.x
             labs == result.labels
             k == lastArgs.k
         IN /\ Len(labs) = k
            /\ \A i \in 1..k : labs[i] \in DOMAIN stored
            /\ \A i, j \in 1..k : i < j => /\ labs[i] # labs[j]
                                           /\ DistOf(q, labs[i]) <= DistOf(q, labs[j])
            /\ \A L \in (DOMAIN stored) \ Range(labs) : DistOf(q, L) >= DistOf(q, labs[k])

\* the last call was a range_search that returned
RangeSearchReturned == lastOp = "range_search" /\ lastResult = "ok"
\* the slots of [0, ntotal) whose vector lies within the radius of query q
\* (squared L2 distance below it; radius2 is twice the radius)
WithinRadius(q, radius2) ==
    {s \in Slots : 2 * fvec_L2sqr(q, VecAt(codes, s)) < radius2}

PrimaryMetrics == {"METRIC_INNER_PRODUCT", "METRIC_L2"}

\* C17 (metric support): range_search and compute_distance_subset return only
\* on an index of metric L2 or inner product, and on any other metric throw
\* without a result; search throws when k <= 0, and when a selector is given on
\* an index whose metric is an extra metric that is a distance.
C17_MetricSupport ==
    /\ lastOp \in {"range_search", "compute_distance_subset"}
         => /\ lastResult = "ok" => metric_type \in PrimaryMetrics
            /\ metric_type \notin PrimaryMetrics
                 => lastResult = "error" /\ result = <<>> /\ ~oob
    /\ lastOp = "search"
         => /\ lastArgs.k <= 0 => lastResult = "error" /\ result = <<>>
            /\ (lastArgs.sel.on /\ metric_type = "METRIC_L1")
                 => lastResult = "error" /\ result = <<>>

\* range_search has thrown on a non-empty index whose metric is an extra one
C17_Witness ==
    /\ lastOp = "range_search"
    /\ metric_type \notin PrimaryMetrics
    /\ ntotal > 0
    /\ lastResult = "error"

\* C18 (search remaps only at valid slots): a search that passes its checks
\* reads the forward map only at slots of [0, ntotal): every position of its
\* output is label[s] for a slot s of [0, ntotal) the scan returned, also when
\* k exceeds the number of candidates.
C18_RemapInRange ==
    (lastOp = "search" /\ lastResult # "error")
      => /\ ~oob
         /\ Len(result.labels) = lastArgs.k
         /\ \A i \in 1..Len(result.ids) :
               /\ result.ids[i] \in Slots
               /\ result.labels[i] = label[result.ids[i] + 1]

\* slot s is recycled by the step: it leaves the free list in an add call
Recycled(s) == IsAdd /\ s \in deleted_elements /\ s \notin deleted_elements'

\* C19 (recycling retires the old label): when an add call recycles a
\* tombstoned slot s whose label was L_old, then after the call L_old resolves
\* neither to s nor to any live slot; s has a label L_new minted by the call,
\* with label[s] = L_new and label_lookup_[L_new] = s; the tombstone bit of s is
\* clear and s is not in the free list.  Stated for calls without an
\* out-of-bounds access.
C19_RecyclingRetires ==
    [][\A s \in Slots :
          (Recycled(s) /\ Tombstoned(s) /\ InBounds(s, Len(label)) /\ ~oob')
          => LET L_old == label[s + 1]
                 L_new == label'[s + 1]
             IN /\ L_new >= labelcount /\ L_new < labelcount'
                /\ L_new # L_old
                /\ L_new \in DOMAIN label_lookup_' /\ label_lookup_'[L_new] = s
                /\ L_old \in DOMAIN label_lookup_'
                     => /\ label_lookup_'[L_old] # s
                        /\ ~(/\ label_lookup_'[L_old] \in 0..(ntotal' - 1)
                             /\ ~is_deleted'[label_lookup_'[L_old] + 1])
                /\ is_deleted'[s + 1] = FALSE
                /\ s \notin deleted_elements']_vars

\* an add of one vector has put it, with the newest label, into a slot that is
\* not the last one, and a label is retired
C19_Witness ==
    /\ lastOp = "add"
    /\ lastResult = "ok"
    /\ ~oob
    /\ NumVecs(lastArgs) = 1
    /\ \E s \in Slots : /\ s < ntotal - 1
                        /\ Live(s)
                        /\ label[s + 1] = labelcount - 1
                        /\ Resolves(labelcount - 1, s)
    /\ \E L \in DOMAIN label_lookup_ : label_lookup_[L] = -1

\* C20 (the free list is exactly the tombstoned slots): in every reachable
\* state, the slots in the free list are the slots of [0, ntotal) whose
\* tombstone bit is set.  Stated on the states reached without an
\* out-of-bounds access.
C20_FreeListIsTombstones ==
    ~oob => deleted_elements = {s \in Slots : Tombstoned(s)}

\* label L has been minted by an add
Issued(L) == L \in 0..(labelcount - 1)
\* label L was bound to a slot and add has retired it since
Retired(L) == L \in DOMAIN label_lookup_ /\ label_lookup_[L] = -1
\* slot s is live and the forward map holds label L at it
Names(L, s) == Live(s) /\ InBounds(s, Len(label)) /\ label[s + 1] = L
\* the slots whose tombstone bit differs after the step
BitChanged ==
    {s \in 0..(Len(is_deleted') - 1) :
        ~InBounds(s, Len(is_deleted)) \/ is_deleted'[s + 1] # is_deleted[s + 1]}

\* C21 (mark_deleted tombstones only the slot its label names): in a
\* mark_deleted call, a tombstone bit changes only at a live slot whose
\* forward-map label is one of the labels passed; and a call whose labels are
\* all unissued or retired changes no bit, no counter and no key of the reverse
\* map, and accesses no slot outside [0, ntotal).
C21_TombstonesOnlyNamed ==
    [][IsMarkDeleted
       => /\ \A s \in BitChanged :
                \E i \in 1..Len(lastArgs') : Names(lastArgs'[i], s)
          /\ (\A i \in 1..Len(lastArgs') :
                  ~Issued(lastArgs'[i]) \/ Retired(lastArgs'[i]))
             => /\ is_deleted' = is_deleted
                /\ nremove' = nremove
                /\ ntotal' = ntotal
                /\ DOMAIN label_lookup_' = DOMAIN label_lookup_
                /\ deleted_elements' = deleted_elements
                /\ ~oob']_vars

\* C22 (storage covers every allocated slot): in every reachable state ntotal
\* is at most the number of slots of the code buffer, at most the length of
\* the tombstone bitmap and at most the length of the forward map; so a slot
\* range that passes the bound check of reconstruct_n is read inside the code
\* buffer.
C22_StorageCovers ==
    /\ ntotal <= CodeSlots(codes)
    /\ ntotal <= Len(is_deleted)
    /\ ntotal <= Len(label)
    /\ \A i0 \in 0..ntotal : \A ni \in 1..(ntotal - i0) :
          reconstruct_n(i0, ni).res = "ok"
          => ~ReadsOutsideCodes(i0 * code_size, ni * code_size)

\* C23 (a failing mark_deleted is state-preserving): a mark_deleted call that
\* fails because one of its labels names an already tombstoned slot leaves
\* nremove, the tombstone bitmap and the free list as they were before the
\* call.
C23_FailedDeleteKeepsState ==
    [][(/\ IsMarkDeleted
        /\ lastResult' = "error"
        /\ \E i \in 1..Len(lastArgs') : HitsTombstone(lastArgs', i))
       => /\ nremove' = nremove
          /\ is_deleted' = is_deleted
          /\ deleted_elements' = deleted_elements]_vars

====
